---- MODULE Spec2Model ----
(***************************************************************************)
(* Model of custom_validators/iprange.py: the two NetBox custom validators *)
(* CheckAddressNotInRange and CheckRangeDoesNotIncludeAddress, the two     *)
(* lookups they call (address_in_range, range_includes_address), and the   *)
(* host that runs them at save time over the IPAddress and IPRange tables. *)
(*                                                                         *)
(* Each lookup issues two queries on a lazy queryset: exists() and then    *)
(* the fetch of the rows (first() / iteration).  The two queries are two   *)
(* steps, so that another session can change the tables between them.      *)
(***************************************************************************)
EXTENDS Integers, Sequences, FiniteSets, TLC

\* ---------------------------------------------------------------- bounds
\* address values are 1..MaxVal (ordered as the backend orders them)
MaxVal == 2
\* scopes: 0 is "no VRF" (vrf = None), 1..NumVrf-1 are VRFs
NumVrf == 2
\* at most this many IPAddress rows
MaxAddrPk == 2
\* at most this many IPRange rows
MaxRangePk == 2
\* validated saves started in one behaviour
MaxSaves == 3
\* the same, when saves run concurrently
MaxConcSaves == 2

Values == 1..MaxVal
Vrfs == 0..(NumVrf - 1)
AddrPks == 1..MaxAddrPk
RangePks == 1..MaxRangePk

\* ---------------------------------------------------------------- state
VARIABLES
    addresses,  \* IPAddress table: set of [pk, vrf, address]
    ranges,     \* IPRange table: set of [pk, vrf, start_address, end_address]
    ipv,        \* the CheckAddressNotInRange call in flight
    rgv,        \* the CheckRangeDoesNotIncludeAddress call in flight
    nsaves      \* validated saves started so far

vars == <<addresses, ranges, ipv, rgv, nsaves>>

\* Placeholders for "no object": pk 0 is also the pk of an unsaved candidate.
NoIp == [pk |-> 0, vrf |-> 0, address |-> 0]
NoRange == [pk |-> 0, vrf |-> 0, start_address |-> 0, end_address |-> 0]

\* Python's None against a returned value.
None == [some |-> FALSE, rg |-> NoRange, list |-> <<>>]
SomeRange(r) == [some |-> TRUE, rg |-> r, list |-> <<>>]
SomeList(l) == [some |-> TRUE, rg |-> NoRange, list |-> l]

IdleIpv ==
    [pc |-> "idle", ip |-> NoIp, raised |-> "", ret |-> None,
     failed |-> FALSE, field |-> "", seen |-> {}]
IdleRgv ==
    [pc |-> "idle", iprange |-> NoRange, raised |-> "", ret |-> None,
     failed |-> FALSE, field |-> "", seen |-> {}]

\* ---------------------------------------------------------------- queries
\* The rows of a queryset in the order the ORM returns them (by primary key).
RECURSIVE OrderByPk(_)
OrderByPk(S) ==
    IF S = {} THEN <<>>
    ELSE LET m == CHOOSE x \in S : \A y \in S : x.pk <= y.pk
         IN <<m>> \o OrderByPk(S \ {m})

\* IPRange.objects.filter(vrf=ip.vrf).filter(Q(start_address__lte=ip.address)
\*                                          & Q(end_address__gte=ip.address))
\* Faulty variant: the scope filter dropped.
IncludingRanges_NoVrf(rs, ip) ==
    {r \in rs : r.start_address <= ip.address /\ r.end_address >= ip.address}

\* Faulty variant: __lt / __gt in place of __lte / __gte.
IncludingRanges_Strict(rs, ip) ==
    {r \in rs : /\ r.vrf = ip.vrf
                /\ r.start_address < ip.address
                /\ r.end_address > ip.address}

\* Faulty variant: bounds one value too wide.
IncludingRanges_Wide(rs, ip) ==
    {r \in rs : /\ r.vrf = ip.vrf
                /\ r.start_address - 1 <= ip.address
                /\ r.end_address + 1 >= ip.address}

IncludingRanges(rs, ip) ==
    {r \in rs : /\ r.vrf = ip.vrf
                /\ r.start_address <= ip.address
                /\ r.end_address >= ip.address}

\* IPAddress.objects.filter(vrf=rg.vrf).filter(Q(address__gte=start)
\*                                            & Q(address__lte=end))
\* Faulty variant: __gt / __lt in place of __gte / __lte.
IncludedAddresses_Strict(as, rg) ==
    {a \in as : /\ a.vrf = rg.vrf
                /\ a.address > rg.start_address
                /\ a.address < rg.end_address}

IncludedAddresses(as, rg) ==
    {a \in as : /\ a.vrf = rg.vrf
                /\ a.address >= rg.start_address
                /\ a.address <= rg.end_address}

\* queryset.exists()
\* Faulty variant: the test is on the queryset object, always true.
Exists_Always(qs) == TRUE

Exists(qs) == qs # {}

\* queryset.first(): the first row of the result, None on an empty result
\* Faulty variant: last() in place of first().
First_Last(qs) ==
    IF qs = {} THEN None ELSE SomeRange(OrderByPk(qs)[Cardinality(qs)])

First(qs) ==
    IF qs = {} THEN None ELSE SomeRange(OrderByPk(qs)[1])

\* str(ip): the text of the address value (neither the pk nor the vrf shows)
Str(a) == a.address

\* list([str(ip) for ip in included_addresses])
\* Faulty variant: only the first row is listed.
StrList_FirstOnly(qs) ==
    LET rows == OrderByPk(qs)
    IN SomeList([i \in 1..(IF Len(rows) > 0 THEN 1 ELSE 0) |-> Str(rows[i])])

StrList(qs) ==
    LET rows == OrderByPk(qs)
    IN SomeList([i \in 1..Len(rows) |-> Str(rows[i])])

\* ---------------------------------------------------------------- validators
\* CheckAddressNotInRange.validate on the value address_in_range returned
AddressVerdict(ret) ==
    IF ret # None THEN [failed |-> TRUE, field |-> "address"]
    ELSE [failed |-> FALSE, field |-> ""]

\* CheckRangeDoesNotIncludeAddress.validate on the value range_includes_address returned
RangeVerdict(ret) ==
    IF ret # None THEN [failed |-> TRUE, field |-> "start_address"]
    ELSE [failed |-> FALSE, field |-> ""]

\* except: pass ... return None
\* Faulty variant: the handler returns a value that is not None.
OnRaise_Block == SomeRange(NoRange)

OnRaise == None

\* ---------------------------------------------------------------- candidates
\* The object under validation: a new one (pk 0, while the table has room) or
\* an edit of a stored row (its pk, any new scope and value).
AddressCandidates ==
    {[pk |-> k, vrf |-> v, address |-> x] :
        k \in {a.pk : a \in addresses}
              \cup (IF Cardinality(addresses) < MaxAddrPk THEN {0} ELSE {}),
        v \in Vrfs, x \in Values}

RangeCandidates ==
    {r \in [pk : {s.pk : s \in ranges}
                 \cup (IF Cardinality(ranges) < MaxRangePk THEN {0} ELSE {}),
            vrf : Vrfs, start_address : Values, end_address : Values] :
        r.start_address <= r.end_address}

\* A behaviour starts at most MaxSaves validated saves.
Counted == nsaves < MaxSaves /\ nsaves' = nsaves + 1

\* ---------------------------------------------------------------- address check
\* validate(ip) enters address_in_range(ip); lines 37-39 build the queryset.
AddressBegin(ip) ==
    /\ ipv.pc = "idle"
    /\ Counted
    /\ ipv' = [IdleIpv EXCEPT !.pc = "exists", !.ip = ip]
    /\ UNCHANGED <<addresses, ranges, rgv>>

\* The backend raises while the queryset is built: except, return None, pass.
AddressBeginRaise(ip) ==
    /\ ipv.pc = "idle"
    /\ Counted
    /\ LET v == AddressVerdict(OnRaise)
       IN ipv' = [IdleIpv EXCEPT !.pc = "decided", !.ip = ip, !.raised = "filter",
                                 !.ret = OnRaise, !.failed = v.failed,
                                 !.field = v.field]
    /\ UNCHANGED <<addresses, ranges, rgv>>

\* if including_ranges.exists(): ... else return None, and validate passes
AddressExists ==
    /\ ipv.pc = "exists"
    /\ IF Exists(IncludingRanges(ranges, ipv.ip))
       THEN ipv' = [ipv EXCEPT !.pc = "fetch", !.seen = ranges]
       ELSE LET v == AddressVerdict(None)
            IN ipv' = [ipv EXCEPT !.pc = "decided", !.ret = None, !.seen = ranges,
                                  !.failed = v.failed, !.field = v.field]
    /\ UNCHANGED <<addresses, ranges, rgv, nsaves>>

\* return including_ranges.first(), then validate on the returned value
\* Faulty variant: the fetch removes the row it returns.
AddressFirst_Writes ==
    /\ ipv.pc = "fetch"
    /\ LET rg == First(IncludingRanges(ranges, ipv.ip))
           v == AddressVerdict(rg)
       IN /\ ipv' = [ipv EXCEPT !.pc = "decided", !.ret = rg,
                                !.failed = v.failed, !.field = v.field]
          /\ ranges' = ranges \ {rg.rg}
    /\ UNCHANGED <<addresses, rgv, nsaves>>

AddressFirst ==
    /\ ipv.pc = "fetch"
    /\ LET rg == First(IncludingRanges(ranges, ipv.ip))
           v == AddressVerdict(rg)
       IN ipv' = [ipv EXCEPT !.pc = "decided", !.ret = rg,
                             !.failed = v.failed, !.field = v.field]
    /\ UNCHANGED <<addresses, ranges, rgv, nsaves>>

\* The backend raises in exists() or in first(): except, return None, pass.
AddressRaise ==
    /\ ipv.pc \in {"exists", "fetch"}
    /\ LET v == AddressVerdict(OnRaise)
       IN ipv' = [ipv EXCEPT !.pc = "decided", !.raised = ipv.pc, !.ret = OnRaise,
                             !.failed = v.failed, !.field = v.field]
    /\ UNCHANGED <<addresses, ranges, rgv, nsaves>>

\* ---------------------------------------------------------------- range check
\* validate(iprange) enters range_includes_address(rg); lines 55-59.
RangeBegin(rg) ==
    /\ rgv.pc = "idle"
    /\ Counted
    /\ rgv' = [IdleRgv EXCEPT !.pc = "exists", !.iprange = rg]
    /\ UNCHANGED <<addresses, ranges, ipv>>

RangeBeginRaise(rg) ==
    /\ rgv.pc = "idle"
    /\ Counted
    /\ LET v == RangeVerdict(OnRaise)
       IN rgv' = [IdleRgv EXCEPT !.pc = "decided", !.iprange = rg,
                                 !.raised = "filter", !.ret = OnRaise,
                                 !.failed = v.failed, !.field = v.field]
    /\ UNCHANGED <<addresses, ranges, ipv>>

\* if included_addresses.exists(): ... else return None, and validate passes
RangeExists ==
    /\ rgv.pc = "exists"
    /\ IF Exists(IncludedAddresses(addresses, rgv.iprange))
       THEN rgv' = [rgv EXCEPT !.pc = "fetch", !.seen = addresses]
       ELSE LET v == RangeVerdict(None)
            IN rgv' = [rgv EXCEPT !.pc = "decided", !.ret = None,
                                  !.seen = addresses,
                                  !.failed = v.failed, !.field = v.field]
    /\ UNCHANGED <<addresses, ranges, ipv, nsaves>>

\* return list([str(ip) for ip in included_addresses]): the queryset is
\* evaluated again, then validate on the returned list
RangeList ==
    /\ rgv.pc = "fetch"
    /\ LET l == StrList(IncludedAddresses(addresses, rgv.iprange))
           v == RangeVerdict(l)
       IN rgv' = [rgv EXCEPT !.pc = "decided", !.ret = l,
                             !.failed = v.failed, !.field = v.field]
    /\ UNCHANGED <<addresses, ranges, ipv, nsaves>>

RangeRaise ==
    /\ rgv.pc \in {"exists", "fetch"}
    /\ LET v == RangeVerdict(OnRaise)
       IN rgv' = [rgv EXCEPT !.pc = "decided", !.raised = rgv.pc, !.ret = OnRaise,
                             !.failed = v.failed, !.field = v.field]
    /\ UNCHANGED <<addresses, ranges, ipv, nsaves>>

\* ---------------------------------------------------------------- host
\* The pk the table gives a new row.
NewPk(rows, pks) == CHOOSE k \in pks : /\ k \notin {r.pk : r \in rows}
                                      /\ \A j \in pks : j < k => j \in {r.pk : r \in rows}

\* The save goes through when the validator did not fail.
AddressSave ==
    /\ ipv.pc = "decided" /\ ~ipv.failed
    /\ LET k == IF ipv.ip.pk = 0 THEN NewPk(addresses, AddrPks) ELSE ipv.ip.pk
       IN addresses' = {a \in addresses : a.pk # k} \cup {[ipv.ip EXCEPT !.pk = k]}
    /\ ipv' = [ipv EXCEPT !.pc = "saved"]
    /\ UNCHANGED <<ranges, rgv, nsaves>>

RangeSave ==
    /\ rgv.pc = "decided" /\ ~rgv.failed
    /\ LET k == IF rgv.iprange.pk = 0 THEN NewPk(ranges, RangePks) ELSE rgv.iprange.pk
       IN ranges' = {r \in ranges : r.pk # k} \cup {[rgv.iprange EXCEPT !.pk = k]}
    /\ rgv' = [rgv EXCEPT !.pc = "saved"]
    /\ UNCHANGED <<addresses, ipv, nsaves>>

\* The request ends: after the save, or with the save aborted by self.fail.
AddressDone ==
    /\ \/ ipv.pc = "saved"
       \/ ipv.pc = "decided" /\ ipv.failed
    /\ ipv' = IdleIpv
    /\ UNCHANGED <<addresses, ranges, rgv, nsaves>>

RangeDone ==
    /\ \/ rgv.pc = "saved"
       \/ rgv.pc = "decided" /\ rgv.failed
    /\ rgv' = IdleRgv
    /\ UNCHANGED <<addresses, ranges, ipv, nsaves>>

\* Deletions run no validator.
DeleteAddress(a) ==
    /\ a \in addresses
    /\ addresses' = addresses \ {a}
    /\ UNCHANGED <<ranges, ipv, rgv, nsaves>>

DeleteRange(r) ==
    /\ r \in ranges
    /\ ranges' = ranges \ {r}
    /\ UNCHANGED <<addresses, ipv, rgv, nsaves>>

\* ---------------------------------------------------------------- specifications
Init ==
    /\ addresses = {}
    /\ ranges = {}
    /\ ipv = IdleIpv
    /\ rgv = IdleRgv
    /\ nsaves = 0

\* One request at a time.
Quiet == ipv.pc = "idle" /\ rgv.pc = "idle"

\* Spec: requests one at a time, the backend may raise in any query.
Next ==
    \/ \E ip \in AddressCandidates :
           Quiet /\ (AddressBegin(ip) \/ AddressBeginRaise(ip))
    \/ \E rg \in RangeCandidates :
           Quiet /\ (RangeBegin(rg) \/ RangeBeginRaise(rg))
    \/ AddressExists \/ AddressFirst \/ AddressRaise
    \/ RangeExists \/ RangeList \/ RangeRaise
    \/ AddressSave \/ RangeSave \/ AddressDone \/ RangeDone
    \/ \E a \in addresses : Quiet /\ DeleteAddress(a)
    \/ \E r \in ranges : Quiet /\ DeleteRange(r)

Spec == Init /\ [][Next]_vars

\* SpecSerial: requests one at a time, no query raises.
NextSerial ==
    \/ \E ip \in AddressCandidates : Quiet /\ AddressBegin(ip)
    \/ \E rg \in RangeCandidates : Quiet /\ RangeBegin(rg)
    \/ AddressExists \/ AddressFirst
    \/ RangeExists \/ RangeList
    \/ AddressSave \/ RangeSave \/ AddressDone \/ RangeDone
    \/ \E a \in addresses : Quiet /\ DeleteAddress(a)
    \/ \E r \in ranges : Quiet /\ DeleteRange(r)

SpecSerial == Init /\ [][NextSerial]_vars

\* SpecConc: an address save and a range save in flight together, deletions
\* at any time, no query raises.
NextConc ==
    \/ \E ip \in AddressCandidates : nsaves < MaxConcSaves /\ AddressBegin(ip)
    \/ \E rg \in RangeCandidates : nsaves < MaxConcSaves /\ RangeBegin(rg)
    \/ AddressExists \/ AddressFirst
    \/ RangeExists \/ RangeList
    \/ AddressSave \/ RangeSave \/ AddressDone \/ RangeDone
    \/ \E a \in addresses : DeleteAddress(a)
    \/ \E r \in ranges : DeleteRange(r)

SpecConc == Init /\ [][NextConc]_vars

\* ---------------------------------------------------------------- claims
\* Conflict (spec, section 3): same scope and the value inside [start, end].
Conflict(a, r) ==
    /\ a.vrf = r.vrf
    /\ r.start_address <= a.address
    /\ a.address <= r.end_address

AddressChecked == ipv.pc = "decided" /\ ipv.raised = ""
RangeChecked == rgv.pc = "decided" /\ rgv.raised = ""

\* The values the range check lists, as a set, and how often it lists x.
Listed == {rgv.ret.list[i] : i \in 1..Len(rgv.ret.list)}
TimesListed(x) == Cardinality({i \in 1..Len(rgv.ret.list) : rgv.ret.list[i] = x})

\* C1: when no query raised and a stored range of the candidate address's
\* scope contains its value (bounds included), the address check fails on the
\* field "address".
C1_AddressInRangeFails ==
    (AddressChecked /\ \E r \in ranges : Conflict(ipv.ip, r))
        => (ipv.failed /\ ipv.field = "address")

\* C1 witness: the candidate sits on the start of a stored range that is longer
\* than one value, and the check failed.
C1_Witness ==
    /\ AddressChecked /\ ipv.failed
    /\ \E r \in ranges : /\ Conflict(ipv.ip, r)
                         /\ ipv.ip.address = r.start_address
                         /\ r.start_address < r.end_address

\* C2: when no query raised and some stored address conflicts with the
\* candidate range, the range check fails on "start_address" and lists exactly
\* the conflicting stored addresses, each once.
C2_RangeListsAllConflicts ==
    (RangeChecked /\ \E a \in addresses : Conflict(a, rgv.iprange))
        => /\ rgv.failed /\ rgv.field = "start_address"
           /\ rgv.ret.some
           /\ \A x \in Values \cup Listed :
                  TimesListed(x) =
                      Cardinality({a \in addresses :
                                      Conflict(a, rgv.iprange) /\ Str(a) = x})

\* C2 witness: a failure listing one address while the table also holds an
\* address with a value inside the range but of another scope.
C2_Witness ==
    /\ RangeChecked /\ rgv.failed /\ Len(rgv.ret.list) = 1
    /\ \E a \in addresses : /\ a.vrf # rgv.iprange.vrf
                            /\ a.address >= rgv.iprange.start_address
                            /\ a.address <= rgv.iprange.end_address

\* C3: records of another scope never make a check fail: a failing address
\* check names a range of the candidate's scope, a failing range check lists only
\* addresses of the candidate's scope, and with no stored record of the
\* candidate's scope both checks pass.
C3_ScopeIsolation ==
    /\ AddressChecked =>
          /\ (\A r \in ranges : r.vrf # ipv.ip.vrf) => ~ipv.failed
          /\ ipv.failed => ipv.ret.rg.vrf = ipv.ip.vrf
    /\ RangeChecked =>
          /\ (\A a \in addresses : a.vrf # rgv.iprange.vrf) => ~rgv.failed
          /\ rgv.failed =>
                Len(rgv.ret.list) <=
                    Cardinality({a \in addresses : a.vrf = rgv.iprange.vrf})

\* C3 witness: the address check passed although a stored range of another
\* scope contains the candidate's value.
C3_Witness ==
    /\ AddressChecked /\ ~ipv.failed
    /\ \E r \in ranges : /\ r.vrf # ipv.ip.vrf
                         /\ r.start_address <= ipv.ip.address
                         /\ ipv.ip.address <= r.end_address

\* C4: when every stored range of the candidate address's scope lies wholly
\* above or below its value the address check passes, and when every stored
\* address of the candidate range's scope lies outside it the range check passes.
C4_OutsidePasses ==
    /\ (AddressChecked /\ \A r \in ranges :
            r.vrf = ipv.ip.vrf =>
                (ipv.ip.address < r.start_address \/ ipv.ip.address > r.end_address))
          => ~ipv.failed
    /\ (RangeChecked /\ \A a \in addresses :
            a.vrf = rgv.iprange.vrf =>
                (a.address < rgv.iprange.start_address
                    \/ a.address > rgv.iprange.end_address))
          => ~rgv.failed

\* C4 witness: the candidate address is the value just below the start of a
\* stored range of its scope, and the check passed.
C4_Witness ==
    /\ AddressChecked /\ ~ipv.failed
    /\ \E r \in ranges : r.vrf = ipv.ip.vrf /\ ipv.ip.address = r.start_address - 1

\* C5: a check in which the backend raised (building the queryset, in exists()
\* or in the fetch) returns None and does not fail, whatever the store holds.
C5_FailOpen ==
    /\ (ipv.pc \in {"decided", "saved"} /\ ipv.raised # "")
          => (ipv.ret = None /\ ~ipv.failed)
    /\ (rgv.pc \in {"decided", "saved"} /\ rgv.raised # "")
          => (rgv.ret = None /\ ~rgv.failed)

\* C5 witness: exists() found a conflict, the fetch raised, and the candidate
\* address was saved into a range of its scope.
C5_Witness ==
    /\ ipv.pc = "saved" /\ ipv.raised = "fetch"
    /\ \E a \in addresses, r \in ranges :
          /\ a.vrf = ipv.ip.vrf /\ a.address = ipv.ip.address
          /\ Conflict(a, r)

\* C6: every step of either check (from the call to the verdict) leaves both
\* tables as they are.
C6_ReadOnly ==
    [][(\/ (ipv.pc \in {"idle", "exists", "fetch"} /\ ipv' # ipv)
        \/ (rgv.pc \in {"idle", "exists", "fetch"} /\ rgv' # rgv))
           => (addresses' = addresses /\ ranges' = ranges)]_vars

\* C6 witness: an address check that fetched a row and failed, over a
\* non-empty range table.
C6_Witness ==
    /\ AddressChecked /\ ipv.failed /\ ipv.ret.rg \in ranges

\* C7: an address save and a range save whose candidates conflict with each
\* other both pass their validation when each one's existence test ran on
\* tables holding no conflict with its candidate.
C7_StaleValidationsPass ==
    (/\ ipv.pc \in {"decided", "saved"}
     /\ rgv.pc \in {"decided", "saved"}
     /\ Conflict(ipv.ip, rgv.iprange)
     /\ \A r \in ipv.seen : ~Conflict(ipv.ip, r)
     /\ \A a \in rgv.seen : ~Conflict(a, rgv.iprange))
        => (~ipv.failed /\ ~rgv.failed)

\* C7 witness: both saves were validated on the empty tables and both were
\* committed: the tables hold a conflicting address and range.
C7_Witness ==
    /\ ipv.pc = "saved" /\ rgv.pc = "saved"
    /\ ipv.seen = {} /\ rgv.seen = {}
    /\ \E a \in addresses, r \in ranges :
          /\ a.vrf = ipv.ip.vrf /\ a.address = ipv.ip.address
          /\ r.vrf = rgv.iprange.vrf
          /\ r.start_address = rgv.iprange.start_address
          /\ r.end_address = rgv.iprange.end_address
          /\ Conflict(a, r)

\* C8: a failing address check names one stored range, that range conflicts
\* with the candidate, and it is the first (lowest pk) of the conflicting ranges.
C8_FirstConflictingRange ==
    (AddressChecked /\ ipv.failed)
        => /\ ipv.ret.some
           /\ ipv.ret.rg \in ranges
           /\ Conflict(ipv.ip, ipv.ret.rg)
           /\ \A r \in ranges : Conflict(ipv.ip, r) => ipv.ret.rg.pk <= r.pk

\* C8 witness: the check failed with two stored ranges containing the candidate.
C8_Witness ==
    /\ AddressChecked /\ ipv.failed
    /\ Cardinality({r \in ranges : Conflict(ipv.ip, r)}) >= 2

\* C9: with saves one at a time, committed only when their check passes, and
\* no query raising, the tables never hold a conflicting address and range.
C9_NoConflictStored ==
    \A a \in addresses, r \in ranges : ~Conflict(a, r)

\* C9 witness: an edit that moved an address into the scope of a stored range
\* was committed, next to the range's end.
C9_Witness ==
    /\ ipv.pc = "saved" /\ ipv.ip.pk # 0
    /\ \E a \in addresses, r \in ranges :
          /\ a.pk = ipv.ip.pk /\ a.vrf = r.vrf /\ a.vrf # 0
          /\ a.address = r.end_address + 1

\* C10: a failing check reports a conflict that exists when the rows are
\* fetched: the range check's list is non-empty and each listed value is a
\* conflicting stored address at the fetch, and the range the address check
\* names is a conflicting stored range at the fetch.
C10_FailureReportsConflict ==
    [][/\ (rgv.pc = "fetch" /\ rgv'.pc = "decided" /\ rgv'.failed)
            => /\ Len(rgv'.ret.list) > 0
               /\ \A i \in 1..Len(rgv'.ret.list) :
                     \E a \in addresses : /\ Conflict(a, rgv.iprange)
                                          /\ Str(a) = rgv'.ret.list[i]
       /\ (ipv.pc = "fetch" /\ ipv'.pc = "decided" /\ ipv'.failed)
            => /\ ipv'.ret.rg \in ranges
               /\ Conflict(ipv.ip, ipv'.ret.rg)]_vars

====
